---- MODULE Spec2Model ----
(***************************************************************************)
(* Monte Carlo Cycle Time Simulator (src/main.py, class MonteCarloApp).    *)
(*                                                                         *)
(* The state is the application object: the loaded cycle times, the file   *)
(* label, the rows of the results Treeview and the plot canvas, together   *)
(* with the message box and the local variables of the handler that ran    *)
(* last.  The values typed into the form (num_backlog, num_sims,           *)
(* sample_size, the percentile check boxes) are read by run_simulation     *)
(* with .get(); they are the handler's inputs.  The T trials of a run are  *)
(* kept run-length encoded: a run is `count` consecutive trials that drew  *)
(* the same sample.  Cycle times are integers; a percentile is an exact    *)
(* rational with denominator 100 and is held in hundredths.                *)
(***************************************************************************)
EXTENDS Integers, Sequences, FiniteSets, TLC

VARIABLES cycle_times, lbl_file, tree, canvas, message, locals

vars == <<cycle_times, lbl_file, tree, canvas, message, locals>>

-----------------------------------------------------------------------------
(* Bounds and program constants *)

MaxRows == 2          \* rows of an uploaded table

MaxRuns == 2          \* distinct consecutive groups of trials in one run

MinSims == 10000

MaxSims == 30000

Values == {0, 2}      \* cycle times found in uploaded tables

-----------------------------------------------------------------------------
(* Python values *)

None == [none |-> TRUE]

Array(v) == [values |-> v]

NoMessage == [kind |-> "none"]

Range(s) == {s[i] : i \in DOMAIN s}

SeqsUpTo(S, n) == UNION {[1..k -> S] : k \in 0..n}

RECURSIVE SumSeq(_)
SumSeq(s) == IF s = <<>> THEN 0 ELSE s[1] + SumSeq(Tail(s))

\* a[start:] for a Python sequence, start possibly negative or past the end
SliceFrom(a, start) ==
    LET n == Len(a)
        s0 == IF start < 0 THEN start + n ELSE start
        s1 == IF s0 < 0 THEN 0 ELSE IF s0 > n THEN n ELSE s0
    IN  SubSeq(a, s1 + 1, n)

\* f"{val:.2f}" of a value held in hundredths
Format2f(val100) ==
    LET mag  == IF val100 < 0 THEN 0 - val100 ELSE val100
        frac == mag % 100
    IN  (IF val100 < 0 THEN "-" ELSE "")
          \o ToString(mag \div 100) \o "."
          \o (IF frac < 10 THEN "0" ELSE "") \o ToString(frac)

-----------------------------------------------------------------------------
(* __init__ and _build_ui *)

\* the keys of self.percentiles, in dict order
PercentileLabels == <<"P50", "P80", "P85", "P90">>

\* columns of the results Treeview
Columns == <<"Position">> \o PercentileLabels

\* f"P{p}"
Label(p) == "P" \o ToString(p)

\* int(p[1:]) for each key of self.percentiles
PctTable == [l \in {PercentileLabels[i] : i \in DOMAIN PercentileLabels} |->
                CHOOSE p \in 0..100 : Label(p) = l]

PctOf(label) == PctTable[label]

Init ==
    /\ cycle_times = None
    /\ lbl_file = "No file loaded"
    /\ tree = <<>>
    /\ canvas = None
    /\ message = NoMessage
    /\ locals = [handler |-> "__init__"]

-----------------------------------------------------------------------------
(* load_excel *)

Missing == [isna |-> TRUE]

Cell(v) == [isna |-> FALSE, value |-> v]

NumberColumn(cells) == [dtype |-> "number", cells |-> cells]

ObjectColumn(n) == [dtype |-> "object", cells |-> [i \in 1..n |-> [isna |-> FALSE, text |-> "item"]]]

\* df.select_dtypes(include=[np.number])
SelectNumeric(df) == SelectSeq(df, LAMBDA c : c.dtype = "number")

\* DataFrame.empty: no column or no row
IsEmpty(df) == Len(df) = 0 \/ Len(df[1].cells) = 0

\* numeric.iloc[:, 0].dropna().values
FirstColumnValues(numeric) ==
    LET kept == SelectSeq(numeric[1].cells, LAMBDA c : ~c.isna)
    IN  [i \in 1..Len(kept) |-> kept[i].value]

ShowError(text) == [kind |-> "showerror", title |-> "Error", text |-> text]

ShowWarning(title, text) == [kind |-> "showwarning", title |-> title, text |-> text]

\* the handler, with the files the dialog may return: "" when cancelled;
\* a file either fails to parse or holds one of `tables`
load_excel(paths, tables) ==
    /\ locals' = [handler |-> "load_excel"]
    /\ UNCHANGED <<tree, canvas>>
    /\ \E path \in paths :
        IF path = ""
        THEN /\ message' = NoMessage
             /\ UNCHANGED <<cycle_times, lbl_file>>
        ELSE \/ /\ message' = ShowError("Failed to load file")
                /\ UNCHANGED <<cycle_times, lbl_file>>
             \/ \E df \in tables :
                  LET numeric == SelectNumeric(df) IN
                  IF IsEmpty(numeric)
                  THEN /\ message' = ShowError("No numeric columns found.")
                       /\ UNCHANGED <<cycle_times, lbl_file>>
                  ELSE /\ cycle_times' = Array(FirstColumnValues(numeric))
                       /\ lbl_file' = "Loaded: " \o path
                       /\ message' = NoMessage

-----------------------------------------------------------------------------
(* run_simulation *)

\* variant: the lower limit of the trial count taken as exclusive
InvalidConfigExclusive(N, sims) == N <= 0 \/ ~(MinSims < sims /\ sims <= MaxSims)

\* variant: only the trial count is validated
InvalidConfigSimsOnly(N, sims) == ~(MinSims <= sims /\ sims <= MaxSims)

\* line 103
InvalidConfig(N, sims) == N <= 0 \/ ~(MinSims <= sims /\ sims <= MaxSims)

\* line 107
EffectiveHistory(ct, hist_n) ==
    IF hist_n < Len(ct) THEN SliceFrom(ct, 0 - hist_n) ELSE ct

\* variant: the check looks at the whole loaded column
NotEnoughLoaded(history, N) == Len(cycle_times.values) < N

\* line 108
NotEnoughData(history, N) == Len(history) < N

\* variant: the running sum lags one draw behind
CumSumLagging(sample) == [k \in 1..Len(sample) |-> SumSeq(SubSeq(sample, 1, k - 1))]

\* variant: the draws are stored without being accumulated
CumSumMissing(sample) == sample

\* np.cumsum(sample)
CumSum(sample) == [k \in 1..Len(sample) |-> SumSeq(SubSeq(sample, 1, k))]

\* sim_matrix: one run per group of consecutive trials with the same sample
SimMatrix(draws) ==
    [r \in 1..Len(draws) |-> [row |-> CumSum(draws[r].sample), count |-> draws[r].count]]

\* sim_matrix[:, pos] (pos from 1), as value/count pairs
ColumnOf(sim_matrix, pos) ==
    [r \in 1..Len(sim_matrix) |-> [value |-> sim_matrix[r].row[pos], count |-> sim_matrix[r].count]]

\* how many entries of the column are below v, and how many equal v
CountBelow(col, v) ==
    SumSeq([r \in 1..Len(col) |-> IF col[r].value < v THEN col[r].count ELSE 0])

CountEqual(col, v) ==
    SumSeq([r \in 1..Len(col) |-> IF col[r].value = v THEN col[r].count ELSE 0])

\* variant: the column sorted in descending order
SortedDescendingAt(col, i) ==
    CHOOSE v \in {col[r].value : r \in DOMAIN col} :
        LET above == SumSeq([r \in 1..Len(col) |-> IF col[r].value > v THEN col[r].count ELSE 0])
        IN  above <= i /\ i < above + CountEqual(col, v)

\* the entry at index i (from 0) of the sorted column
SortedAt(col, i) ==
    CHOOSE v \in {col[r].value : r \in DOMAIN col} :
        CountBelow(col, v) <= i /\ i < CountBelow(col, v) + CountEqual(col, v)

\* np.percentile(column, p) in hundredths: linear interpolation between the
\* order statistics around the rank p/100 * (n - 1)
Percentile(col, p) ==
    LET n      == SumSeq([r \in 1..Len(col) |-> col[r].count])
        rank   == p * (n - 1)
        lo     == rank \div 100
        gamma  == rank % 100
        hi     == IF lo + 1 > n - 1 THEN n - 1 ELSE lo + 1
        a      == SortedAt(col, lo)
        b      == SortedAt(col, hi)
    IN  100 * a + (b - a) * gamma

\* line 117
RequestedPcts(percentiles) ==
    LET chosen == SelectSeq(PercentileLabels, LAMBDA l : percentiles[l])
    IN  [i \in 1..Len(chosen) |-> PctOf(chosen[i])]

\* variant: the rows of the previous run are left in the table
KeepTable(rows) == rows

\* lines 121-122
ClearTable(rows) == <<>>

\* lines 126-131: plot_data
PlotData(sim_matrix, N, requested_pcts) ==
    [l \in {Label(p) : p \in Range(requested_pcts)} |->
        [pos \in 1..N |-> Percentile(ColumnOf(sim_matrix, pos), PctOf(l))]]

\* lines 127-132: the values of the row inserted for position pos
RowValues(plot_data, pos, requested_pcts) ==
    <<ToString(pos)>> \o
    [i \in 1..Len(requested_pcts) |-> Format2f(plot_data[Label(requested_pcts[i])][pos])]

\* lines 126-132
InsertRows(rows, plot_data, N, requested_pcts) ==
    rows \o [pos \in 1..N |-> RowValues(plot_data, pos, requested_pcts)]

\* lines 138-151
Figure(plot_data, N) == [positions |-> [i \in 1..N |-> i], lines |-> plot_data]

\* variant: the table is cleared before the entries are validated
ReturnCleared(msg, frame) ==
    /\ message' = msg
    /\ locals' = frame
    /\ tree' = <<>>
    /\ UNCHANGED <<cycle_times, lbl_file, canvas>>

\* an early return of run_simulation after a message box (lines 96-97, 104-105, 109-110)
Return(msg, frame) ==
    /\ message' = msg
    /\ locals' = frame
    /\ UNCHANGED <<cycle_times, lbl_file, tree, canvas>>

NotEnoughText(history, N) ==
    "Not enough data in selected history size (" \o ToString(Len(history))
        \o ") for N=" \o ToString(N)

\* np.random.choice(history, size=N, replace=True)
Samples(history, N) == [1..N -> Range(history)]

\* trial counts at which the draws may change: around each offered percentile's rank
Cuts(sims) == {(PctOf(PercentileLabels[i]) * (sims - 1)) \div 100 + 1 : i \in DOMAIN PercentileLabels}

\* the draws of trials start..sims-1 in at most R runs
RECURSIVE DrawsFrom(_, _, _, _, _)
DrawsFrom(history, N, sims, start, R) ==
    {<<[sample |-> s, count |-> sims - start]>> : s \in Samples(history, N)}
    \cup
    (IF R <= 1 THEN {}
     ELSE UNION {
            {<<[sample |-> s, count |-> c - start]>> \o rest :
                s \in Samples(history, N), rest \in DrawsFrom(history, N, sims, c, R - 1)}
            : c \in {x \in Cuts(sims) : x > start /\ x < sims}})

\* the handler, with the sets the form's entries and the random draws range over
run_simulation(form) ==
    IF cycle_times = None
    THEN Return(ShowWarning("No file", "Please upload an Excel or CSV file first."),
                [handler |-> "run_simulation"])
    ELSE
    \E N \in form.num_backlog, sims \in form.num_sims, hist_n \in form.sample_size :
    IF InvalidConfig(N, sims)
    THEN Return(ShowError("Invalid N or simulation count."),
                [handler |-> "run_simulation", N |-> N, sims |-> sims, hist_n |-> hist_n])
    ELSE
    LET history == EffectiveHistory(cycle_times.values, hist_n) IN
    IF NotEnoughData(history, N)
    THEN Return(ShowError(NotEnoughText(history, N)),
                [handler |-> "run_simulation", N |-> N, sims |-> sims,
                 hist_n |-> hist_n, history |-> history])
    ELSE
    \E draws \in DrawsFrom(history, N, sims, 0, form.runs), percentiles \in form.percentiles :
        LET sim_matrix     == SimMatrix(draws)
            requested_pcts == RequestedPcts(percentiles)
            plot_data      == PlotData(sim_matrix, N, requested_pcts)
        IN  /\ tree' = InsertRows(ClearTable(tree), plot_data, N, requested_pcts)
            /\ canvas' = Figure(plot_data, N)
            /\ message' = NoMessage
            /\ locals' = [handler |-> "run_simulation", N |-> N, sims |-> sims,
                          hist_n |-> hist_n, history |-> history,
                          sim_matrix |-> sim_matrix, requested_pcts |-> requested_pcts]
            /\ UNCHANGED <<cycle_times, lbl_file>>

-----------------------------------------------------------------------------
(* Inputs *)

Paths == {"", "cycle_times.csv"}

Tables(V) ==
    LET cols == SeqsUpTo({Cell(v) : v \in V} \cup {Missing}, MaxRows)
    IN  {<<>>, <<ObjectColumn(1)>>}
        \cup {<<NumberColumn(c)>> : c \in cols}
        \cup {<<ObjectColumn(1), NumberColumn(c)>> : c \in {x \in cols : Len(x) = 1}}

UploadedTables == Tables(Values)

\* the check boxes as __init__ leaves them: P50 only
DefaultSelection == [l \in Range(PercentileLabels) |-> l = "P50"]

AllSelected == [l \in Range(PercentileLabels) |-> TRUE]

Selections == [Range(PercentileLabels) -> BOOLEAN]

\* a window at least as long as any uploaded column, like the default 1000
WholeHistory == MaxRows + 1

\* every kind of entry, the check boxes as constructed, identical trials
AnyForm ==
    [num_backlog |-> 0..(MaxRows + 1),
     num_sims    |-> {MinSims - 1, MinSims, MaxSims, MaxSims + 1},
     sample_size |-> {0 - 1, 0, 1, WholeHistory},
     percentiles |-> {DefaultSelection},
     runs        |-> 1]

\* valid entries, every choice of check boxes, identical trials
TableForm ==
    [num_backlog |-> 1..MaxRows,
     num_sims    |-> {MinSims},
     sample_size |-> {WholeHistory},
     percentiles |-> Selections,
     runs        |-> 1]

\* valid entries, all percentiles, trials in up to MaxRuns groups
EngineForm ==
    [num_backlog |-> 1..MaxRows,
     num_sims    |-> {MinSims, MaxSims},
     sample_size |-> {WholeHistory},
     percentiles |-> {AllSelected},
     runs        |-> MaxRuns]

\* the application right after its first upload
InitLoaded ==
    /\ \E col \in SeqsUpTo(Values, MaxRows) :
         /\ cycle_times = Array(col)
         /\ lbl_file = "Loaded: cycle_times.csv"
    /\ tree = <<>>
    /\ canvas = None
    /\ message = NoMessage
    /\ locals = [handler |-> "load_excel"]

LoadExcel == load_excel(Paths, UploadedTables)

RunSimulation == run_simulation(AnyForm)

Next == LoadExcel \/ RunSimulation

Spec == Init /\ [][Next]_vars

\* successive simulations over one uploaded file
RunTable == run_simulation(TableForm)

SpecTable == InitLoaded /\ [][RunTable]_vars

\* the first simulation after an upload
RunEngine == locals.handler = "load_excel" /\ run_simulation(EngineForm)

SpecEngine == InitLoaded /\ [][RunEngine]_vars

-----------------------------------------------------------------------------
(* What a state shows of the last run_simulation call *)

Ran == locals.handler = "run_simulation"

\* the call returned without a message box: the simulation was carried out
Succeeded == Ran /\ message.kind = "none"

NoFileShown == Ran /\ message.kind = "showwarning"

InvalidConfigShown == Ran /\ message = ShowError("Invalid N or simulation count.")

InsufficientDataShown ==
    /\ Ran
    /\ message.kind = "showerror"
    /\ message.text # "Invalid N or simulation count."

NoTrialDrawn == "sim_matrix" \notin DOMAIN locals

IsSuffix(s, t) == Len(s) <= Len(t) /\ s = SubSeq(t, Len(t) - Len(s) + 1, Len(t))

Min(a, b) == IF a < b THEN a ELSE b

\* the cell a Treeview row shows under column c: values fill the columns in order
DisplayedCell(row, c) == IF c <= Len(row) THEN row[c] ELSE ""

-----------------------------------------------------------------------------
(* Claims *)

\* C1: after every successful run the table holds exactly N rows, with
\* positions 1..N in order and one value per requested percentile in each row;
\* no row of an earlier run remains.
C1_TableShape ==
    Succeeded =>
        /\ Len(tree) = locals.N
        /\ \A k \in 1..Len(tree) :
              /\ tree[k][1] = ToString(k)
              /\ Len(tree[k]) = 1 + Len(locals.requested_pcts)
        /\ Cardinality(DOMAIN canvas.lines) = Len(locals.requested_pcts)

C1_Witness ==
    /\ Succeeded
    /\ locals.N = 2
    /\ locals.requested_pcts = <<80, 90>>
    /\ Len(tree) = 2

\* C2: with a history loaded, the call is rejected as an invalid configuration,
\* before any trial is drawn, exactly when N < 1 or the trial count is outside
\* [10000, 30000]; N = 1 with a non-empty effective history yields one row.
C2_InvalidConfig ==
    (Ran /\ cycle_times # None) =>
        /\ "N" \in DOMAIN locals /\ "sims" \in DOMAIN locals
        /\ InvalidConfigShown <=>
              (locals.N < 1 \/ locals.sims < MinSims \/ locals.sims > MaxSims)
        /\ InvalidConfigShown => NoTrialDrawn
        /\ (~InvalidConfigShown /\ locals.N = 1 /\ Len(locals.history) >= 1) =>
              (Succeeded /\ Len(tree) = 1)

C2_Witness ==
    /\ InvalidConfigShown
    /\ locals.N = 1
    /\ locals.sims = MaxSims + 1

\* C3 as stated: a run over an empty history (no file, or a column without
\* values) always ends with the insufficient-data outcome, whatever N and T.
C3_EmptyAlwaysInsufficient ==
    (Ran /\ (cycle_times = None \/ cycle_times.values = <<>>)) =>
        (NoFileShown \/ InsufficientDataShown)

\* C3 as amended: a run over an empty history never simulates; with no file it
\* shows the no-file warning; with an empty column it shows the invalid
\* configuration error when N < 1 or T is out of range and the insufficient
\* data error otherwise.
C3_EmptyNeverSimulates ==
    (Ran /\ (cycle_times = None \/ cycle_times.values = <<>>)) =>
        /\ ~Succeeded
        /\ NoTrialDrawn
        /\ cycle_times = None => NoFileShown
        /\ cycle_times # None =>
              IF locals.N < 1 \/ locals.sims < MinSims \/ locals.sims > MaxSims
              THEN InvalidConfigShown
              ELSE /\ InsufficientDataShown
                   /\ message.text = NotEnoughText(<<>>, locals.N)

C3_Witness ==
    /\ Ran
    /\ cycle_times # None
    /\ cycle_times.values = <<>>
    /\ InvalidConfigShown
    /\ locals.N = 0
    /\ locals.sims = MinSims

\* C4 as stated: for a window K >= 0 the effective history has length
\* min(K, len(H)), and it is always a suffix of the loaded history H.
C4_WindowIsLastK ==
    (Ran /\ "history" \in DOMAIN locals) =>
        /\ IsSuffix(locals.history, cycle_times.values)
        /\ locals.hist_n >= 0 =>
              Len(locals.history) = Min(locals.hist_n, Len(cycle_times.values))

\* C5: with valid N and T the call is rejected for insufficient data, before
\* any trial, exactly when the effective history is shorter than N, and is
\* simulated exactly when it is not; the length checked is that of the
\* effective history, not of the loaded column.
C5_CheckOnEffectiveHistory ==
    (Ran /\ cycle_times # None /\ ~InvalidConfigShown) =>
        /\ locals.history = EffectiveHistory(cycle_times.values, locals.hist_n)
        /\ InsufficientDataShown <=> Len(locals.history) < locals.N
        /\ Succeeded <=> Len(locals.history) >= locals.N
        /\ InsufficientDataShown => NoTrialDrawn

C5_Witness ==
    /\ InsufficientDataShown
    /\ Len(locals.history) < locals.N
    /\ Len(cycle_times.values) >= locals.N

\* C6: a call that fails a validation draws no trial and leaves the table
\* rows, the canvas and the loaded cycle times as they were.
C6_NoPartialResult ==
    [][(locals'.handler = "run_simulation" /\ message'.kind # "none") =>
          /\ tree' = tree
          /\ canvas' = canvas
          /\ cycle_times' = cycle_times
          /\ "sim_matrix" \notin DOMAIN locals']_vars

C6_Witness ==
    /\ InsufficientDataShown
    /\ Len(tree) = 2
    /\ canvas # None

\* C7: in a successful run, at every position, a lower requested percentile
\* never exceeds a higher one.
C7_MonotoneInPercentile ==
    Succeeded =>
        \A pos \in 1..locals.N :
            \A p1 \in Range(locals.requested_pcts), p2 \in Range(locals.requested_pcts) :
                p1 < p2 => canvas.lines[Label(p1)][pos] <= canvas.lines[Label(p2)][pos]

C7_Witness ==
    /\ Succeeded
    /\ \E pos \in 1..locals.N :
         canvas.lines["P50"][pos] < canvas.lines["P80"][pos]
         /\ canvas.lines["P80"][pos] < canvas.lines["P85"][pos]

\* C8: when every element of the effective history is the same value v, every
\* trial's cumulative sums are v, 2v, ..., N*v and every requested percentile
\* at position k is exactly k*v.
C8_ConstantHistory ==
    Succeeded =>
        \A v \in Range(locals.history) :
            Range(locals.history) = {v} =>
                /\ \A r \in DOMAIN locals.sim_matrix :
                      locals.sim_matrix[r].row = [k \in 1..locals.N |-> k * v]
                /\ \A p \in Range(locals.requested_pcts), k \in 1..locals.N :
                      canvas.lines[Label(p)][k] = 100 * (k * v)

C8_Witness ==
    /\ Succeeded
    /\ locals.history = <<2, 2>>
    /\ locals.N = 2
    /\ Len(locals.sim_matrix) = 2

\* C9: with non-negative history values every trial's row is the running sum
\* of draws taken from the effective history (draws 6,8,7,5,9 give
\* 6,14,21,26,35) and is non-decreasing in position, and so is every requested
\* percentile.
C9_MonotoneInPosition ==
    /\ CumSum(<<6, 8, 7, 5, 9>>) = <<6, 14, 21, 26, 35>>
    /\ (Succeeded /\ \A i \in DOMAIN locals.history : locals.history[i] >= 0) =>
        /\ \A r \in DOMAIN locals.sim_matrix :
              LET row == locals.sim_matrix[r].row IN
              /\ Len(row) = locals.N
              /\ row[1] \in Range(locals.history)
              /\ \A k \in 1..(locals.N - 1) :
                    /\ row[k] <= row[k + 1]
                    /\ row[k + 1] - row[k] \in Range(locals.history)
        /\ \A p \in Range(locals.requested_pcts), k \in 1..(locals.N - 1) :
              canvas.lines[Label(p)][k] <= canvas.lines[Label(p)][k + 1]

C9_Witness ==
    /\ Succeeded
    /\ locals.N = 2
    /\ \E r \in DOMAIN locals.sim_matrix : locals.sim_matrix[r].row = <<2, 2>>
    /\ canvas.lines["P50"][1] < canvas.lines["P50"][2]

\* C10 as stated: every forecast value of a successful run is shown under the
\* column labelled with its percentile, and the columns of percentiles that
\* were not requested are empty.
C10_ValuesUnderTheirColumn ==
    Succeeded =>
        \A pos \in 1..Len(tree), c \in 2..Len(Columns) :
            DisplayedCell(tree[pos], c) =
                IF Columns[c] \in DOMAIN canvas.lines
                THEN Format2f(canvas.lines[Columns[c]][pos])
                ELSE ""

====
